---- MODULE Spec2Model ----
(***************************************************************************)
(* Model of the multi-tenant RAG backend (backend/main.py and              *)
(* backend/database.py): the SQLite catalog (users, documents), the        *)
(* shared Qdrant vector index, the upload directory, and the HTTP          *)
(* handlers /auth/register, /auth/login, /upload, /chat, /documents,       *)
(* /admin/... that act on them.  The handlers that only read (/auth/me     *)
(* and the GET routes of /admin) change nothing of this state.             *)
(*                                                                         *)
(* Handlers are `async def` functions run by one event loop: a handler     *)
(* runs without interleaving from its entry to its next `await`.  The      *)
(* only `await` in the modelled handlers is `await file.read()` in         *)
(* upload_document, so an upload is two steps (UploadBegin, UploadFinish)  *)
(* and every other handler is one step.                                    *)
(***************************************************************************)
EXTENDS Naturals, Integers, Sequences, FiniteSets, TLC

\* ------------------------------------------------------------------------
\* Bounds of the model
\* ------------------------------------------------------------------------
\* Number of document ids (uuid4 values) drawn by uploads.
MaxDocs == 2
\* Largest number of chunks text_splitter.split_text returns for one upload.
MaxChunks == 2
\* Largest number of uploads suspended at `await file.read()` at one time.
MaxPending == 1
\* Longest candidate list of the pure rerank specification.
MaxCand == 6
\* Largest cross-encoder score of the pure rerank specification.
MaxScore == 2
\* Chunks per document, longest candidate list and largest score of the
\* pure chat-pipeline specification.
MaxPlChunks == 2
MaxPassages == 3
MaxPlScore == 1
\* Longest text of the pure chunker specification.
MaxTextLen == 4
\* Largest cross-encoder score of a chat of the whole system, whose
\* response is followed without the order of its passages.
MaxChatScore == 0

\* ------------------------------------------------------------------------
\* Program constants
\* ------------------------------------------------------------------------
\* similarity_search(..., k=12)
K1 == 12
\* doc_score_pairs[:5]
K2 == 5

\* RecursiveCharacterTextSplitter(chunk_size=1500, chunk_overlap=300, ...)
chunk_size == 1500
chunk_overlap == 300

HTTP_OK == 200
HTTP_BAD_REQUEST == 400
HTTP_UNAUTHORIZED == 401
HTTP_NOT_FOUND == 404
HTTP_INTERNAL == 500

\* ------------------------------------------------------------------------
\* Input domains
\* ------------------------------------------------------------------------
\* The account that registers itself and the administrator account.  Both
\* may log in, and a user route serves whoever holds a token: the tenants
\* of the model are these two accounts.
Owners == {"alice"}
Admins == {"root"}
UserIds == Owners \cup Admins

\* Filenames are strings, modelled as sequences of characters.
Filenames ==
    { <<"a", ".", "P", "d", "f">>,
      <<"c", ".", "t", "x", "t">> }

\* Query strings, as sequences of characters: the empty one, three blank
\* ones and one with a word.
Queries ==
    { <<>>, <<" ", " ">>, <<"\r", "\f">>, <<" ", "">>, <<" ", "q">> }

DocIds == 1..MaxDocs

\* ------------------------------------------------------------------------
\* String helpers (Python str methods used by the handlers)
\* ------------------------------------------------------------------------
\* The character set of the model is Latin-1 (U+0000 .. U+00FF), the
\* characters a string of the model can hold.  Its letters with a lower-case
\* form are A .. Z and U+00C0 .. U+00DE without the multiplication sign
\* U+00D7; each lowers to the character 32 places after it.
UpperLetters ==
    <<"A", "B", "C", "D", "E", "F", "G", "H", "I", "J", "K", "L", "M",
      "N", "O", "P", "Q", "R", "S", "T", "U", "V", "W", "X", "Y", "Z",
      "À", "Á", "Â", "Ã", "Ä", "Å", "Æ", "Ç", "È", "É",
      "Ê", "Ë", "Ì", "Í", "Î", "Ï", "Ð", "Ñ", "Ò", "Ó",
      "Ô", "Õ", "Ö", "Ø", "Ù", "Ú", "Û", "Ü", "Ý", "Þ">>

LowerLetters ==
    <<"a", "b", "c", "d", "e", "f", "g", "h", "i", "j", "k", "l", "m",
      "n", "o", "p", "q", "r", "s", "t", "u", "v", "w", "x", "y", "z",
      "à", "á", "â", "ã", "ä", "å", "æ", "ç", "è", "é",
      "ê", "ë", "ì", "í", "î", "ï", "ð", "ñ", "ò", "ó",
      "ô", "õ", "ö", "ø", "ù", "ú", "û", "ü", "ý", "þ">>

\* str.lower() on one character: an upper-case letter becomes its lower-case
\* letter, every other character stays.
LowerChar(c) ==
    IF \E i \in 1..Len(UpperLetters) : UpperLetters[i] = c
    THEN LowerLetters[CHOOSE i \in 1..Len(UpperLetters) : UpperLetters[i] = c]
    ELSE c

Lower(s) == [i \in 1..Len(s) |-> LowerChar(s[i])]

\* str.endswith(suffix)
EndsWith(s, suf) ==
    /\ Len(suf) <= Len(s)
    /\ SubSeq(s, Len(s) - Len(suf) + 1, Len(s)) = suf

supported_extensions ==
    { <<".", "p", "d", "f">>,
      <<".", "d", "o", "c", "x">>,
      <<".", "p", "p", "t", "x">>,
      <<".", "x", "l", "s", "x">>,
      <<".", "h", "t", "m", "l">>,
      <<".", "p", "n", "g">>,
      <<".", "j", "p", "g">>,
      <<".", "j", "p", "e", "g">>,
      <<".", "t", "i", "f", "f">> }

\* file.filename.lower().endswith(supported_extensions)
SupportedFile(fn) == \E suf \in supported_extensions : EndsWith(Lower(fn), suf)

\* The whitespace of str.strip() and str.isspace() in the character set of
\* the model: space, tab, line feed, carriage return, form feed, vertical
\* tab, the separators FS, GS, RS, US (0x1c .. 0x1f), next line (U+0085)
\* and no-break space (U+00A0).
Whitespace ==
    {" ", "\t", "\n", "\r", "\f", "", "", "", "", "",
     "", " "}

IsSpace(c) == c \in Whitespace

\* str.strip(): drop leading and trailing whitespace.
RECURSIVE LStrip(_)
LStrip(s) == IF s # <<>> /\ IsSpace(Head(s)) THEN LStrip(Tail(s)) ELSE s

RECURSIVE RStrip(_)
RStrip(s) ==
    IF s # <<>> /\ IsSpace(s[Len(s)]) THEN RStrip(SubSeq(s, 1, Len(s) - 1)) ELSE s

Strip(s) == RStrip(LStrip(s))

\* ------------------------------------------------------------------------
\* Sequence helpers
\* ------------------------------------------------------------------------
Range(s) == {s[i] : i \in 1..Len(s)}

Reverse(s) == [i \in 1..Len(s) |-> s[Len(s) + 1 - i]]

\* s[:n]
Take(s, n) == SubSeq(s, 1, IF n < Len(s) THEN n ELSE Len(s))

Min(a, b) == IF a < b THEN a ELSE b

\* ------------------------------------------------------------------------
\* Reranking (chat, step 2) as pure functions of the candidate list and the
\* scores the cross-encoder returned for it
\* ------------------------------------------------------------------------
\* list(zip(initial_docs, scores))
Zip(docs, scores) ==
    [i \in 1..Min(Len(docs), Len(scores)) |-> <<docs[i], scores[i]>>]

\* One step of the stable ascending sort: x goes after every element whose
\* key is not larger than its own.
InsertAsc(sorted, x) ==
    LET n == Cardinality({i \in 1..Len(sorted) : sorted[i][2] <= x[2]})
    IN  SubSeq(sorted, 1, n) \o <<x>> \o SubSeq(sorted, n + 1, Len(sorted))

RECURSIVE StableSortAsc(_)
StableSortAsc(pairs) ==
    IF pairs = <<>>
    THEN <<>>
    ELSE InsertAsc(StableSortAsc(SubSeq(pairs, 1, Len(pairs) - 1)), pairs[Len(pairs)])

\* A sort that orders by score descending but reverses the order of ties.
SortDescTiesReversed(pairs) == Reverse(StableSortAsc(pairs))

\* doc_score_pairs.sort(key=lambda x: x[1], reverse=True): CPython reverses
\* the list, sorts it ascending with its stable sort, and reverses it again.
SortDesc(pairs) == Reverse(StableSortAsc(Reverse(pairs)))

\* reranked_docs = [doc for doc, score in doc_score_pairs[:5]]
Rerank(docs, scores) ==
    LET sorted == Take(SortDesc(Zip(docs, scores)), K2)
    IN  [i \in 1..Len(sorted) |-> sorted[i][1]]

\* ------------------------------------------------------------------------
\* State
\* ------------------------------------------------------------------------
VARIABLES
    users,      \* ids of the rows of table users
    tokens,     \* user ids for which register issued an access token
    catalog,    \* rows of table documents
    index,      \* payloads of the points of the Qdrant collection
    files,      \* paths that exist under uploads/
    uploads,    \* upload requests suspended at `await file.read()`
    nextDoc,    \* the next fresh document id (stands for uuid.uuid4())
    life,       \* per document id: how far its lifecycle got (history)
    resp,       \* the response of the request that completed last
    rr,         \* one rerank call: its arguments and, once made, its result
    pl,         \* one run of the chat pipeline after retrieval, and its result
    ck,         \* one call of text_splitter.split_text, and its result
    ev          \* the event loop: per request its position, and who holds the loop

vars == <<users, tokens, catalog, index, files, uploads, nextDoc, life, resp, rr, pl, ck, ev>>

\* uploads/<user_id>/<doc_id>_<filename>
FilePath(u, d, fn) == <<u, d, fn>>

\* The shape of every response the handlers produce.  calls lists the
\* collaborators the request invoked, in order, and fault names the step of
\* the request that raised ("none" when no step did).  Of a chat, cands and
\* selected are the candidates retrieved and the passages selected, in
\* order, context is the context block, and retrieved and passages are the
\* same points as sets.
Response(op, u, d, status, kind) ==
    [op |-> op, user |-> u, doc |-> d, status |-> status, kind |-> kind,
     chunks |-> 0, calls |-> <<>>, fault |-> "none", cands |-> <<>>,
     selected |-> <<>>, retrieved |-> {}, passages |-> {}, sources |-> <<>>,
     context |-> <<>>, docs |-> <<>>]

NoResponse == Response("none", "none", 0, 0, "none")

\* The values of rr, pl, ck and ev while no pure call and no scheduling run
\* is being followed.
IdleRerank == [docs |-> <<>>, scores |-> <<>>, out |-> <<>>, done |-> FALSE]
IdlePipeline ==
    [docs |-> <<>>, scores |-> <<>>, fault |-> "none", out |-> NoResponse,
     done |-> FALSE]
IdleChunker == [text |-> <<>>, out |-> <<>>, done |-> FALSE]
IdleLoop == [at |-> <<>>, holder |-> {}]

\* init_db creates the tables users and documents, both empty; the index
\* and uploads/ are empty and no token was issued.
Init ==
    /\ users = {}
    /\ tokens = {}
    /\ catalog = {}
    /\ index = {}
    /\ files = {}
    /\ uploads = {}
    /\ nextDoc = 1
    /\ life = [d \in DocIds |-> "unused"]
    /\ resp = NoResponse
    /\ rr = IdleRerank
    /\ pl = IdlePipeline
    /\ ck = IdleChunker
    /\ ev = IdleLoop

\* ------------------------------------------------------------------------
\* auth.py, by its contract: a request resolves to the id its token was
\* issued for, whether or not table users still holds that id
\* ------------------------------------------------------------------------
get_current_user_id(u) == u \in tokens

\* ------------------------------------------------------------------------
\* database.py
\* ------------------------------------------------------------------------
\* get_user_by_id: the row, or none
get_user_by_id(us, u) == u \in us

\* get_user_by_email, for the email address of account u: the row, or none
get_user_by_email(us, u) == u \in us

\* create_user: INSERT INTO users
create_user(us, u) == us \cup {u}

Max(a, b) == IF a < b THEN b ELSE a

\* The largest value of created_at and of rowid among the rows of a table,
\* 0 when it has none.
RECURSIVE LatestStamp(_)
LatestStamp(cat) ==
    IF cat = {}
    THEN 0
    ELSE LET row == CHOOSE r \in cat : TRUE
         IN  Max(row.created_at, LatestStamp(cat \ {row}))

RECURSIVE LargestRowid(_)
LargestRowid(cat) ==
    IF cat = {}
    THEN 0
    ELSE LET row == CHOOSE r \in cat : TRUE
         IN  Max(row.rowid, LargestRowid(cat \ {row}))

\* CURRENT_TIMESTAMP, the default of documents.created_at, counts whole
\* seconds: an insert reads the second of the latest row of the table or a
\* later one.  Only the order of the values matters to the program, so the
\* seconds are counted from the rows the table holds.
Now(cat) == IF cat = {} THEN {0} ELSE {LatestStamp(cat), LatestStamp(cat) + 1}

\* create_document: INSERT INTO documents.  The table has no INTEGER PRIMARY
\* KEY, so SQLite gives the row the rowid after the largest in the table.
create_document(cat, d, u, fn, path, n, now) ==
    cat \cup {[id |-> d, user_id |-> u, filename |-> fn, file_path |-> path,
               chunks |-> n, created_at |-> now, rowid |-> LargestRowid(cat) + 1]}

\* A lookup by document id alone.
get_document_any_owner(cat, d, u) == {row \in cat : row.id = d}

\* get_document: SELECT * FROM documents WHERE id = ? AND user_id = ?
get_document(cat, d, u) == {row \in cat : row.id = d /\ row.user_id = u}

\* delete_document: DELETE FROM documents WHERE id = ? AND user_id = ?
delete_document(cat, d, u) == {row \in cat : ~(row.id = d /\ row.user_id = u)}

\* delete_document_admin: DELETE FROM documents WHERE id = ?
delete_document_admin(cat, d) == {row \in cat : row.id # d}

\* delete_user_admin: DELETE FROM documents WHERE user_id = ?
delete_user_admin(cat, u) == {row \in cat : row.user_id # u}

\* ORDER BY created_at DESC: the rows with the larger created_at first, and
\* rows of one second in the order of the table scan, that is by rowid.
RECURSIVE NewestFirst(_)
NewestFirst(rows) ==
    IF rows = {}
    THEN <<>>
    ELSE LET m == CHOOSE r \in rows :
                      \A o \in rows :
                          \/ o.created_at < r.created_at
                          \/ o.created_at = r.created_at /\ r.rowid <= o.rowid
         IN  <<m>> \o NewestFirst(rows \ {m})

\* A listing that leaves out the WHERE clause.
get_user_documents_all(cat, u) == NewestFirst(cat)

\* get_user_documents: SELECT id, filename, chunks, created_at FROM documents
\* WHERE user_id = ? ORDER BY created_at DESC
get_user_documents(cat, u) == NewestFirst({row \in cat : row.user_id = u})

\* ------------------------------------------------------------------------
\* The vector store
\* ------------------------------------------------------------------------
\* Payloads that carry one fixed owner instead of the uploader.
MetadatasFixedOwner(u, d, fn, n) ==
    {[user_id |-> "alice", doc_id |-> d, filename |-> fn, chunk_id |-> i] : i \in 0..(n - 1)}

\* Payloads that number the chunks from 1.
MetadatasOneBased(u, d, fn, n) ==
    {[user_id |-> u, doc_id |-> d, filename |-> fn, chunk_id |-> i] : i \in 1..n}

\* Payloads that leave out the last chunk.
MetadatasShort(u, d, fn, n) ==
    {[user_id |-> u, doc_id |-> d, filename |-> fn, chunk_id |-> i] : i \in 0..(n - 2)}

\* metadatas: one payload per chunk, chunk_id = 0 .. len(chunks) - 1.  The
\* chunk text (page_content) of a point is identified by (doc_id, chunk_id).
Metadatas(u, d, fn, n) ==
    {[user_id |-> u, doc_id |-> d, filename |-> fn, chunk_id |-> i] : i \in 0..(n - 1)}

\* The orders in which the points of a set may be ranked.
RECURSIVE Rankings(_)
Rankings(S) ==
    IF S = {}
    THEN {<<>>}
    ELSE UNION {{<<x>> \o s : s \in Rankings(S \ {x})} : x \in S}

\* A search that leaves out the payload filter.
similarity_search_unfiltered(idx, u) == {Take(s, K1) : s \in Rankings(idx)}

\* vector_store.similarity_search(query, k=12, filter=user_filter): the k
\* most similar points among those whose metadata.user_id is the caller.
\* The similarities are those of the embedding model, so the result is the
\* head of any ranking of the matching points.
similarity_search(idx, u) ==
    {Take(s, K1) : s \in Rankings({r \in idx : r.user_id = u})}

\* reranker.predict(pairs): one score per pair, whatever the cross-encoder
\* computes.
ScoreVectors(n) == [1..n -> 0..MaxChatScore]

\* ------------------------------------------------------------------------
\* POST /chat
\* ------------------------------------------------------------------------
ChatFaults == {"none", "retrieve", "rerank", "generate"}

\* str(i): the decimal digits of i.
Digits == <<"0", "1", "2", "3", "4", "5", "6", "7", "8", "9">>

RECURSIVE IntStr(_)
IntStr(i) ==
    IF i < 10
    THEN <<Digits[i + 1]>>
    ELSE IntStr(i \div 10) \o <<Digits[(i % 10) + 1]>>

\* doc.page_content: the text of the chunk, which (doc_id, chunk_id) names.
PageContent(doc) == <<"chunk ">> \o IntStr(doc.doc_id) \o <<".">> \o IntStr(doc.chunk_id)

\* "\n\n---\n\n"
ContextDelimiter == "\n\n---\n\n"

\* A part numbered as enumerate numbers without its start argument.
ContextPartZeroBased(i, doc) ==
    <<"[Source ">> \o IntStr(i - 1) \o <<": ">> \o doc.filename \o <<"]\n">>
        \o PageContent(doc)

\* f"[Source {i}: {filename}]\n{doc.page_content}"
ContextPart(i, doc) ==
    <<"[Source ">> \o IntStr(i) \o <<": ">> \o doc.filename \o <<"]\n">>
        \o PageContent(doc)

\* sep.join(parts)
RECURSIVE Join(_, _)
Join(sep, parts) ==
    IF parts = <<>>
    THEN <<>>
    ELSE IF Len(parts) = 1
    THEN parts[1]
    ELSE parts[1] \o sep \o Join(sep, Tail(parts))

\* context_parts over enumerate(reranked_docs, 1), joined by the delimiter.
Context(reranked_docs) ==
    Join(<<ContextDelimiter>>,
         [i \in 1..Len(reranked_docs) |-> ContextPart(i, reranked_docs[i])])

\* Outcomes of the try block of chat: an exception, or a returned response.
\* reranked is reranked_docs, from which the request built the context block
\* of its prompt, if it got that far; retrieved and passages are the
\* candidates and the selected passages as sets.
Raised(status, calls, fault) ==
    [raised |-> TRUE, status |-> status, kind |-> "exception", calls |-> calls,
     fault |-> fault, cands |-> <<>>, selected |-> <<>>, reranked |-> <<>>,
     retrieved |-> {}, passages |-> {}]

Returned(kind, calls, cands, selected) ==
    [raised |-> FALSE, status |-> HTTP_OK, kind |-> kind, calls |-> calls,
     fault |-> "none", cands |-> cands, selected |-> selected,
     reranked |-> selected, retrieved |-> Range(cands),
     passages |-> Range(selected)]

\* A pipeline that hands the first retrieved candidates to the language
\* model without reranking them.
chat_pipeline_no_rerank(initial_docs, scores, fault) ==
    LET first_docs == Take(initial_docs, K2)
    IN  IF initial_docs = <<>>
        THEN Returned("nodocs", <<"retrieve">>, <<>>, <<>>)
        ELSE IF fault = "rerank"
        THEN Raised(0, <<"retrieve">>, "rerank")
        ELSE IF fault = "generate"
        THEN [Raised(0, <<"retrieve", "generate">>, "generate") EXCEPT
                  !.reranked = first_docs]
        ELSE Returned("answer", <<"retrieve", "generate">>, initial_docs, first_docs)

\* The try block of chat from the result of the retrieval on: the "no
\* documents" return, reranking with the scores the cross-encoder returns,
\* the context block and the generation.  fault names the collaborator that
\* raises when it is called.
chat_pipeline(initial_docs, scores, fault) ==
    LET reranked_docs == Rerank(initial_docs, scores)
    IN  IF initial_docs = <<>>
        THEN Returned("nodocs", <<"retrieve">>, <<>>, <<>>)
        ELSE IF fault = "rerank"
        THEN Raised(0, <<"retrieve", "rerank">>, "rerank")
        ELSE IF fault = "generate"
        THEN [Raised(0, <<"retrieve", "rerank", "generate">>, "generate") EXCEPT
                  !.reranked = reranked_docs]
        ELSE Returned("answer", <<"retrieve", "rerank", "generate">>,
                      initial_docs, reranked_docs)

\* An outcome without the order of its candidates and passages: what resp
\* keeps of a chat.
Unranked(r) == [r EXCEPT !.cands = <<>>, !.selected = <<>>, !.reranked = <<>>]

\* A try block that goes on to rerank and generate with no candidates.
chat_try_no_shortcut(idx, u, q, fault) ==
    IF Strip(q) = <<>>
    THEN {Raised(HTTP_BAD_REQUEST, <<>>, "validation")}
    ELSE IF fault = "retrieve"
    THEN {Raised(0, <<"retrieve">>, "retrieve")}
    ELSE UNION {
             {LET reranked == Rerank(initial_docs, scores)
              IN  IF fault = "rerank"
                  THEN Raised(0, <<"retrieve", "rerank">>, "rerank")
                  ELSE IF fault = "generate"
                  THEN Raised(0, <<"retrieve", "rerank", "generate">>, "generate")
                  ELSE Unranked(Returned("answer", <<"retrieve", "rerank", "generate">>,
                                         initial_docs, reranked))
                  : scores \in ScoreVectors(Len(initial_docs))}
             : initial_docs \in similarity_search(idx, u)}

\* The try block of chat: its outcomes, without their order, over the
\* rankings the store may return and the scores the cross-encoder may
\* return.  fault names the collaborator that raises when it is called in
\* this request; a reranker that is not called, or that raises, returns no
\* scores.
chat_try(idx, u, q, fault) ==
    IF Strip(q) = <<>>
    THEN {Raised(HTTP_BAD_REQUEST, <<>>, "validation")}
    ELSE IF fault = "retrieve"
    THEN {Raised(0, <<"retrieve">>, "retrieve")}
    ELSE UNION {
             IF initial_docs = <<>> \/ fault = "rerank"
             THEN {Unranked(chat_pipeline(initial_docs, <<>>, fault))}
             ELSE {Unranked(chat_pipeline(initial_docs, scores, fault))
                       : scores \in ScoreVectors(Len(initial_docs))}
             : initial_docs \in similarity_search(idx, u)}

\* list(set(filenames of reranked_docs)): the distinct filenames of the
\* selected passages, in any of the orders the set may iterate in.
SourceLists(passages) ==
    LET names == {p.filename : p \in passages}
    IN  {s \in [1..Cardinality(names) -> names] : Range(s) = names}

\* An except clause that answers a failed request with the "no documents"
\* response.
chat_except_masks(r, u, src) ==
    IF r.raised
    THEN [Response("chat", u, 0, HTTP_OK, "nodocs") EXCEPT
              !.calls = r.calls, !.fault = r.fault,
              !.context = Context(r.reranked)]
    ELSE [Response("chat", u, 0, r.status, r.kind) EXCEPT
              !.calls = r.calls, !.cands = r.cands, !.selected = r.selected,
              !.retrieved = r.retrieved, !.passages = r.passages,
              !.sources = src, !.context = Context(r.reranked)]

\* `except Exception as e: raise HTTPException(status_code=500, ...)` around
\* the try block: every exception, HTTPException included, becomes a 500.
\* The response is given with what the request did: its calls, the fault,
\* the candidates, the passages and the context block it built from
\* reranked_docs.
chat_except(r, u, src) ==
    IF r.raised
    THEN [Response("chat", u, 0, HTTP_INTERNAL, "error") EXCEPT
              !.calls = r.calls, !.fault = r.fault,
              !.context = Context(r.reranked)]
    ELSE [Response("chat", u, 0, r.status, r.kind) EXCEPT
              !.calls = r.calls, !.cands = r.cands, !.selected = r.selected,
              !.retrieved = r.retrieved, !.passages = r.passages,
              !.sources = src, !.context = Context(r.reranked)]

\* chat, whole: the store answers with any ranking and the cross-encoder
\* with any scores; the stores are left as they were.  resp keeps which
\* points were retrieved and selected, not their order: the order, and the
\* context block made in that order, are followed in SpecPipeline.
Chat(u, q, fault) ==
    /\ get_current_user_id(u)
    /\ resp' \in UNION {{chat_except(r, u, src) : src \in SourceLists(r.passages)}
                          : r \in chat_try(index, u, q, fault)}
    /\ UNCHANGED <<users, tokens, catalog, index, files, uploads, nextDoc, life,
                   rr, pl, ck, ev>>

\* ------------------------------------------------------------------------
\* POST /upload
\* ------------------------------------------------------------------------
\* `except Exception` around the body of upload_document: every exception,
\* the HTTPException(400) of the validations included, becomes a 500.
upload_except(u, d, fault, steps) ==
    [Response("upload", u, d, HTTP_INTERNAL, "error") EXCEPT
         !.fault = fault, !.calls = steps]

\* An entry that inserts the catalog row before the content was read.
UploadBeginCatalogFirst(u, fn, openOk) ==
    /\ get_current_user_id(u)
    /\ UNCHANGED <<users, tokens, index, rr, pl, ck, ev>>
    /\ IF ~SupportedFile(fn)
       THEN /\ resp' = upload_except(u, 0, "validation", <<>>)
            /\ UNCHANGED <<catalog, files, uploads, nextDoc, life>>
       ELSE /\ nextDoc <= MaxDocs
            /\ Cardinality(uploads) < MaxPending
            /\ nextDoc' = nextDoc + 1
            /\ IF openOk
               THEN /\ files' = files \cup {FilePath(u, nextDoc, fn)}
                    /\ catalog' = create_document(catalog, nextDoc, u, fn,
                                                  FilePath(u, nextDoc, fn), 0,
                                                  LatestStamp(catalog))
                    /\ uploads' = uploads \cup
                           {[user_id |-> u, doc_id |-> nextDoc, filename |-> fn]}
                    /\ life' = [life EXCEPT ![nextDoc] = "uploading"]
                    /\ UNCHANGED resp
               ELSE /\ resp' = upload_except(u, nextDoc, "save", <<"store">>)
                    /\ life' = [life EXCEPT ![nextDoc] = "failed"]
                    /\ UNCHANGED <<catalog, files, uploads>>

\* Entry of upload_document up to `await file.read()`: validate the
\* extension, draw the document id, create the user's directory and open
\* (create) the file.  openOk is whether open(file_path, "wb") succeeds.
UploadBegin(u, fn, openOk) ==
    /\ get_current_user_id(u)
    /\ UNCHANGED <<users, tokens, catalog, index, rr, pl, ck, ev>>
    /\ IF ~SupportedFile(fn)
       THEN /\ resp' = upload_except(u, 0, "validation", <<>>)
            /\ UNCHANGED <<files, uploads, nextDoc, life>>
       ELSE /\ nextDoc <= MaxDocs
            /\ Cardinality(uploads) < MaxPending
            /\ nextDoc' = nextDoc + 1
            /\ IF openOk
               THEN /\ files' = files \cup {FilePath(u, nextDoc, fn)}
                    /\ uploads' = uploads \cup
                           {[user_id |-> u, doc_id |-> nextDoc, filename |-> fn]}
                    /\ life' = [life EXCEPT ![nextDoc] = "uploading"]
                    /\ UNCHANGED resp
               ELSE /\ resp' = upload_except(u, nextDoc, "save", <<"store">>)
                    /\ life' = [life EXCEPT ![nextDoc] = "failed"]
                    /\ UNCHANGED <<files, uploads>>

UploadOutcomes ==
    {"save_fail", "extract_fail", "empty_text", "index_fail", "catalog_fail", "ok"}

\* An order of the steps in which the catalog row is inserted before the
\* chunks are added to the vector store.
IngestOrderCatalogFirst ==
    <<"store", "extract", "nonempty", "chunk", "catalog", "index">>

\* The steps of upload_document once the extension was accepted, in the
\* order of the code: store the file (open, read, write), extract the text,
\* require it to be non-blank, split it, add the chunks to the vector store,
\* insert the catalog row.
IngestOrder ==
    <<"store", "extract", "nonempty", "chunk", "index", "catalog">>

\* The step that raises under each outcome, and the name the fault has in
\* the response.
FailingStep(out) ==
    CASE out = "save_fail" -> "store"
      [] out = "extract_fail" -> "extract"
      [] out = "empty_text" -> "nonempty"
      [] out = "index_fail" -> "index"
      [] out = "catalog_fail" -> "catalog"
      [] OTHER -> "none"

FaultName(out) ==
    CASE out = "save_fail" -> "save"
      [] out = "extract_fail" -> "extract"
      [] out = "empty_text" -> "empty_text"
      [] out = "index_fail" -> "index"
      [] out = "catalog_fail" -> "catalog"
      [] OTHER -> "none"

\* The steps the handler enters under an outcome: all of them, or those up
\* to the one that raises.
upload_steps(out) ==
    IF out = "ok"
    THEN IngestOrder
    ELSE LET last == CHOOSE j \in 1..Len(IngestOrder) : IngestOrder[j] = FailingStep(out)
         IN  SubSeq(IngestOrder, 1, last)

\* upload_document from the completion of `await file.read()` to its end:
\* write the content, extract the text, split it into n chunks, add the
\* chunks to the vector store and insert the catalog row.  out names the
\* step that fails, if any; an add_texts that fails has written the first k
\* points.  Extraction fails as well when the file is no longer there.  A
\* step takes effect when it was entered and did not raise.  now is the
\* second CURRENT_TIMESTAMP reads when the row is inserted.
UploadResume(p, out, n, k, now) ==
    LET u == p.user_id
        d == p.doc_id
        fn == p.filename
        path == FilePath(u, d, fn)
        res == IF out # "save_fail" /\ path \notin files THEN "extract_fail" ELSE out
        steps == upload_steps(res)
        completed == IF res = "ok"
                     THEN Range(steps)
                     ELSE Range(SubSeq(steps, 1, Len(steps) - 1))
        written == IF "index" \in completed
                   THEN n
                   ELSE IF "index" \in Range(steps) THEN k ELSE 0
    IN  /\ k < n
        /\ now \in Now(catalog)
        /\ uploads' = uploads \ {p}
        /\ UNCHANGED <<users, tokens, files, nextDoc, rr, pl, ck, ev>>
        /\ index' = index \cup Metadatas(u, d, fn, written)
        /\ catalog' = IF "catalog" \in completed
                      THEN create_document(catalog, d, u, fn, path, n, now)
                      ELSE catalog
        /\ IF res = "ok"
           THEN /\ life' = [life EXCEPT ![d] = "active"]
                /\ resp' = [Response("upload", u, d, HTTP_OK, "message") EXCEPT
                                !.chunks = n, !.calls = steps]
           ELSE /\ life' = [life EXCEPT ![d] = "failed"]
                /\ resp' = upload_except(u, d, FaultName(res), steps)

\* Some suspended upload resumes.
UploadFinish(out, n, k, now) == \E p \in uploads : UploadResume(p, out, n, k, now)

\* ------------------------------------------------------------------------
\* DELETE /documents/{doc_id}
\* ------------------------------------------------------------------------
\* What may raise inside the try block of delete_document: nothing,
\* file_path.exists() (the stat of the file, where the runtime lets its
\* OSError through), file_path.unlink(), or db_delete_document.
DeleteFaults == {"none", "exists", "unlink", "delete"}

\* A delete that answers success as well when there is no row to delete.
DeleteDocumentIdempotent(u, d, fault) ==
    LET doc == get_document(catalog, d, u)
    IN  /\ get_current_user_id(u)
        /\ UNCHANGED <<users, tokens, index, uploads, nextDoc, rr, pl, ck, ev>>
        /\ resp' = Response("delete", u, d, HTTP_OK, "message")
        /\ IF doc = {}
           THEN UNCHANGED <<catalog, files, life>>
           ELSE /\ files' = files \ {row.file_path : row \in doc}
                /\ catalog' = delete_document(catalog, d, u)
                /\ life' = [life EXCEPT ![d] = "deleted"]

\* get_document decides ownership, and its 404 is raised before the try
\* block.  Inside the try block the file is unlinked if it exists and the
\* row is deleted; the except clause answers 500 for whatever is raised
\* there and undoes nothing: exists raising leaves the file and the row
\* before any call is made, unlink raising leaves the file and the row,
\* db_delete_document raising leaves the row after the file has gone, and
\* the HTTPException(404) of a DELETE that removed no row becomes a 500.
\* The response keeps the calls the handler made: unlink is skipped when the
\* file does not exist.
DeleteDocument(u, d, fault) ==
    LET doc == get_document(catalog, d, u)
        paths == {row.file_path : row \in doc}
        remaining == delete_document(catalog, d, u)
        unlinked == IF paths \cap files # {} THEN <<"unlink">> ELSE <<>>
        failed(calls) == [Response("delete", u, d, HTTP_INTERNAL, "error")
                              EXCEPT !.calls = calls]
    IN  /\ get_current_user_id(u)
        /\ UNCHANGED <<users, tokens, index, uploads, nextDoc, rr, pl, ck, ev>>
        /\ IF doc = {}
           THEN /\ resp' = Response("delete", u, d, HTTP_NOT_FOUND, "error")
                /\ UNCHANGED <<catalog, files, life>>
           ELSE IF fault = "exists"
           THEN /\ resp' = failed(<<>>)
                /\ UNCHANGED <<catalog, files, life>>
           ELSE IF fault = "unlink" /\ unlinked # <<>>
           THEN /\ resp' = failed(unlinked)
                /\ UNCHANGED <<catalog, files, life>>
           ELSE /\ files' = files \ paths
                /\ IF fault = "delete"
                   THEN /\ resp' = failed(unlinked \o <<"delete">>)
                        /\ UNCHANGED <<catalog, life>>
                   ELSE /\ catalog' = remaining
                        /\ IF remaining = catalog
                           THEN /\ resp' = failed(unlinked \o <<"delete">>)
                                /\ UNCHANGED life
                           ELSE /\ life' = [life EXCEPT ![d] = "deleted"]
                                /\ resp' = [Response("delete", u, d, HTTP_OK, "message")
                                                EXCEPT !.calls = unlinked \o <<"delete">>]

\* ------------------------------------------------------------------------
\* GET /documents
\* ------------------------------------------------------------------------
\* DocumentInfo(id, filename, chunks, created_at)
DocumentInfo(row) ==
    [id |-> row.id, filename |-> row.filename, chunks |-> row.chunks,
     created_at |-> row.created_at]

\* list_documents: the caller's rows, newest first.
ListDocuments(u) ==
    LET docs == get_user_documents(catalog, u)
    IN  /\ get_current_user_id(u)
        /\ resp' = [Response("list", u, 0, HTTP_OK, "documents") EXCEPT
                        !.docs = [i \in 1..Len(docs) |-> DocumentInfo(docs[i])]]
        /\ UNCHANGED <<users, tokens, catalog, index, files, uploads, nextDoc, life,
                       rr, pl, ck, ev>>

\* ------------------------------------------------------------------------
\* DELETE /admin/documents/{doc_id} and DELETE /admin/users/{user_id}
\* ------------------------------------------------------------------------
\* get_current_admin_user_id: the caller is an account flagged is_admin.
IsAdmin(a) == a \in Admins /\ get_user_by_id(users, a)

AdminDeleteDocument(a, d) ==
    LET doc == {row \in catalog : row.id = d}
    IN  /\ IsAdmin(a)
        /\ UNCHANGED <<rr, pl, ck, ev>>
        /\ IF doc = {}
           THEN /\ resp' = Response("admin_delete_document", a, d, HTTP_NOT_FOUND, "error")
                /\ UNCHANGED <<users, tokens, catalog, index, files, uploads, nextDoc, life>>
           ELSE /\ files' = files \ {row.file_path : row \in doc}
                /\ catalog' = delete_document_admin(catalog, d)
                /\ life' = [life EXCEPT ![d] = "admin_deleted"]
                /\ resp' = Response("admin_delete_document", a, d, HTTP_OK, "message")
                /\ UNCHANGED <<users, tokens, index, uploads, nextDoc>>

\* A delete_user without the check that the target is not the caller.
AdminDeleteUserNoGuard(a, target) ==
    /\ IsAdmin(a)
    /\ UNCHANGED <<rr, pl, ck, ev>>
    /\ IF ~get_user_by_id(users, target)
       THEN /\ resp' = Response("admin_delete_user", a, 0, HTTP_NOT_FOUND, "error")
            /\ UNCHANGED <<users, tokens, catalog, index, files, uploads, nextDoc, life>>
       ELSE /\ files' = {f \in files : f[1] # target}
            /\ catalog' = delete_user_admin(catalog, target)
            /\ users' = users \ {target}
            /\ life' = [d \in DocIds |->
                           IF \E row \in catalog : row.id = d /\ row.user_id = target
                           THEN "admin_deleted"
                           ELSE life[d]]
            /\ resp' = Response("admin_delete_user", a, 0, HTTP_OK, "message")
            /\ UNCHANGED <<tokens, index, uploads, nextDoc>>

\* delete_user: the caller may not be the target; the target must exist;
\* its upload directory is removed, then its rows and its account.
AdminDeleteUser(a, target) ==
    /\ IsAdmin(a)
    /\ UNCHANGED <<rr, pl, ck, ev>>
    /\ IF target = a
       THEN /\ resp' = Response("admin_delete_user", a, 0, HTTP_BAD_REQUEST, "error")
            /\ UNCHANGED <<users, tokens, catalog, index, files, uploads, nextDoc, life>>
       ELSE IF ~get_user_by_id(users, target)
       THEN /\ resp' = Response("admin_delete_user", a, 0, HTTP_NOT_FOUND, "error")
            /\ UNCHANGED <<users, tokens, catalog, index, files, uploads, nextDoc, life>>
       ELSE /\ files' = {f \in files : f[1] # target}
            /\ catalog' = delete_user_admin(catalog, target)
            /\ users' = users \ {target}
            /\ life' = [d \in DocIds |->
                           IF \E row \in catalog : row.id = d /\ row.user_id = target
                           THEN "admin_deleted"
                           ELSE life[d]]
            /\ resp' = Response("admin_delete_user", a, 0, HTTP_OK, "message")
            /\ UNCHANGED <<tokens, index, uploads, nextDoc>>

\* ------------------------------------------------------------------------
\* POST /auth/register, and the creation of an administrator
\* ------------------------------------------------------------------------
\* What the request collides with in table users: nothing, the email of a
\* row (get_user_by_email finds it), or the username of a row (the INSERT of
\* create_user violates UNIQUE and create_user returns False).
RegisterClashes == {"none", "email", "username"}

\* register: refuse an email or a username that a row of users holds, both
\* with status 400; else draw a fresh id u (uuid4), insert the row and
\* return a token issued for u.
Register(u, clash) ==
    /\ UNCHANGED <<catalog, index, files, uploads, nextDoc, life, rr, pl, ck, ev>>
    /\ IF clash # "none"
       THEN /\ users # {}
            /\ resp' = [Response("register", "none", 0, HTTP_BAD_REQUEST, "error")
                            EXCEPT !.fault = clash]
            /\ UNCHANGED <<users, tokens>>
       ELSE /\ u \notin tokens
            /\ users' = create_user(users, u)
            /\ tokens' = tokens \cup {u}
            /\ resp' = Response("register", u, 0, HTTP_OK, "token")

\* login: refuse with status 401 an email that no row of users holds
\* (get_user_by_email) and a password that does not verify; else return a
\* token issued for the id of the row, the row of an administrator
\* included.  u is the id of the account the email names.
Login(u, verified) ==
    /\ UNCHANGED <<users, catalog, index, files, uploads, nextDoc, life, rr, pl, ck, ev>>
    /\ IF ~get_user_by_email(users, u) \/ ~verified
       THEN /\ resp' = Response("login", "none", 0, HTTP_UNAUTHORIZED, "error")
            /\ UNCHANGED tokens
       ELSE /\ tokens' = tokens \cup {u}
            /\ resp' = Response("login", u, 0, HTTP_OK, "token")

\* No route passes is_admin: an administrator is a row that a direct call
\* create_user(..., is_admin=True) inserted.  It answers no request.
ProvisionAdmin(a) ==
    /\ a \notin users
    /\ users' = create_user(users, a)
    /\ UNCHANGED <<tokens, catalog, index, files, uploads, nextDoc, life, resp,
                   rr, pl, ck, ev>>

\* ------------------------------------------------------------------------
\* The system
\* ------------------------------------------------------------------------
\* The seconds an insert may read.
Seconds == 0..MaxDocs

Next ==
    \/ \E u \in Owners, clash \in RegisterClashes : Register(u, clash)
    \/ \E u \in UserIds, verified \in BOOLEAN : Login(u, verified)
    \/ \E a \in Admins : ProvisionAdmin(a)
    \/ \E u \in UserIds, fn \in Filenames, openOk \in BOOLEAN : UploadBegin(u, fn, openOk)
    \/ \E out \in UploadOutcomes, n \in 1..MaxChunks, k \in 0..(MaxChunks - 1),
          now \in Seconds : UploadFinish(out, n, k, now)
    \/ \E u \in UserIds, q \in Queries, fault \in ChatFaults : Chat(u, q, fault)
    \/ \E u \in UserIds : ListDocuments(u)
    \/ \E u \in UserIds, d \in DocIds, fault \in DeleteFaults : DeleteDocument(u, d, fault)
    \/ \E a \in Admins, d \in DocIds : AdminDeleteDocument(a, d)
    \/ \E a \in Admins, target \in UserIds : AdminDeleteUser(a, target)

Spec == Init /\ [][Next]_vars

\* ------------------------------------------------------------------------
\* Reranking on its own: every candidate list of 1..MaxCand entries (the
\* i-th candidate is named by its retrieval rank i) with every assignment of
\* scores 0..MaxScore, and the rerank step of chat applied to it.
\* ------------------------------------------------------------------------
InitRerank ==
    /\ users = {}
    /\ tokens = {}
    /\ catalog = {}
    /\ index = {}
    /\ files = {}
    /\ uploads = {}
    /\ nextDoc = 1
    /\ life = [d \in DocIds |-> "unused"]
    /\ resp = NoResponse
    /\ \E n \in 1..MaxCand :
           \E scores \in [1..n -> 0..MaxScore] :
               rr = [docs |-> [i \in 1..n |-> i], scores |-> scores,
                     out |-> <<>>, done |-> FALSE]
    /\ pl = IdlePipeline
    /\ ck = IdleChunker
    /\ ev = IdleLoop

RerankStep ==
    /\ ~rr.done
    /\ rr' = [rr EXCEPT !.out = Rerank(rr.docs, rr.scores), !.done = TRUE]
    /\ UNCHANGED <<users, tokens, catalog, index, files, uploads, nextDoc, life, resp, pl, ck, ev>>

NextRerank == RerankStep

SpecRerank == InitRerank /\ [][NextRerank]_vars

\* The stores, the suspended uploads and the last response as they are
\* after construction.
StoresAtInit ==
    /\ users = {}
    /\ tokens = {}
    /\ catalog = {}
    /\ index = {}
    /\ files = {}
    /\ uploads = {}
    /\ nextDoc = 1
    /\ life = [d \in DocIds |-> "unused"]
    /\ resp = NoResponse

\* ------------------------------------------------------------------------
\* The chat pipeline on its own: every list of up to MaxPassages distinct
\* points of one owner, taken from two documents of MaxPlChunks chunks each,
\* with every assignment of scores 0..MaxPlScore and every collaborator that
\* may raise, and the part of chat that follows the retrieval applied to it.
\* ------------------------------------------------------------------------
PipelineFilename(d) ==
    IF d = 1 THEN <<"a", ".", "P", "d", "f">> ELSE <<"b", ".", "p", "d", "f">>

PipelinePoints ==
    {[user_id |-> "alice", doc_id |-> d, filename |-> PipelineFilename(d),
      chunk_id |-> c] : d \in {1, 2}, c \in 0..(MaxPlChunks - 1)}

InitPipeline ==
    /\ StoresAtInit
    /\ rr = IdleRerank
    /\ ck = IdleChunker
    /\ ev = IdleLoop
    /\ \E n \in 0..MaxPassages :
           \E docs \in [1..n -> PipelinePoints], scores \in [1..n -> 0..MaxPlScore],
              fault \in {"none", "rerank", "generate"} :
               /\ \A i, j \in 1..n : i # j => docs[i] # docs[j]
               /\ pl = [docs |-> docs, scores |-> scores, fault |-> fault,
                        out |-> NoResponse, done |-> FALSE]

PipelineStep ==
    LET r == chat_pipeline(pl.docs, pl.scores, pl.fault)
    IN  /\ ~pl.done
        /\ \E src \in SourceLists(r.passages) :
               pl' = [pl EXCEPT !.out = chat_except(r, "alice", src), !.done = TRUE]
        /\ UNCHANGED <<users, tokens, catalog, index, files, uploads, nextDoc, life, resp,
                       rr, ck, ev>>

NextPipeline == PipelineStep

SpecPipeline == InitPipeline /\ [][NextPipeline]_vars

\* ------------------------------------------------------------------------
\* text_splitter.split_text: RecursiveCharacterTextSplitter with
\* keep_separator and strip_whitespace at their defaults (both on)
\* ------------------------------------------------------------------------
\* separators=["\n\n", "\n", " ", ""]
separators == << <<"\n", "\n">>, <<"\n">>, <<" ">>, <<>> >>

\* sep occurs in text at position i
MatchAt(text, sep, i) ==
    /\ i + Len(sep) - 1 <= Len(text)
    /\ SubSeq(text, i, i + Len(sep) - 1) = sep

\* re.search(separator, text)
Contains(text, sep) == \E i \in 1..Len(text) : MatchAt(text, sep, i)

\* The pieces of text from position start on, i being the position looked
\* at: a piece ends before each occurrence of sep, which begins the piece
\* that follows; empty pieces are left out.
RECURSIVE SplitScan(_, _, _, _)
SplitScan(text, sep, start, i) ==
    IF i > Len(text)
    THEN IF start <= Len(text) THEN <<SubSeq(text, start, Len(text))>> ELSE <<>>
    ELSE IF MatchAt(text, sep, i)
    THEN (IF start < i THEN <<SubSeq(text, start, i - 1)>> ELSE <<>>)
             \o SplitScan(text, sep, i, i + Len(sep))
    ELSE SplitScan(text, sep, start, i + 1)

\* _split_text_with_regex(text, separator, keep_separator=True); the empty
\* separator splits into characters.
split_text_with_regex(text, sep) ==
    IF sep = <<>>
    THEN [i \in 1..Len(text) |-> <<text[i]>>]
    ELSE SplitScan(text, sep, 1, 1)

\* A join that keeps the whitespace at both ends of the chunk.
join_docs_unstripped(docs, separator) ==
    LET text == Join(separator, docs)
    IN  IF text = <<>> THEN <<>> ELSE <<text>>

\* _join_docs: separator.join(docs).strip(), or nothing when that is empty.
join_docs(docs, separator) ==
    LET text == Strip(Join(separator, docs))
    IN  IF text = <<>> THEN <<>> ELSE <<text>>

\* The while loop of _merge_splits: drop splits from the front of
\* current_doc until what is left fits the overlap and the next split.
RECURSIVE Shrink(_, _, _, _)
Shrink(current, total, len, sepLen) ==
    IF \/ total > chunk_overlap
       \/ /\ total + len + (IF Len(current) > 0 THEN sepLen ELSE 0) > chunk_size
          /\ total > 0
    THEN Shrink(Tail(current),
                total - (Len(Head(current)) + (IF Len(current) > 1 THEN sepLen ELSE 0)),
                len, sepLen)
    ELSE [current |-> current, total |-> total]

\* The for loop of _merge_splits over the splits that remain.
RECURSIVE MergeFrom(_, _, _, _, _)
MergeFrom(splits, separator, docs, current, total) ==
    IF splits = <<>>
    THEN docs \o join_docs(current, separator)
    ELSE LET d == Head(splits)
             len == Len(d)
             sepLen == Len(separator)
             over == total + len + (IF Len(current) > 0 THEN sepLen ELSE 0) > chunk_size
             flush == over /\ Len(current) > 0
             kept == IF flush
                     THEN Shrink(current, total, len, sepLen)
                     ELSE [current |-> current, total |-> total]
             current_doc == Append(kept.current, d)
         IN  MergeFrom(Tail(splits), separator,
                       IF flush THEN docs \o join_docs(current, separator) ELSE docs,
                       current_doc,
                       kept.total + len + (IF Len(current_doc) > 1 THEN sepLen ELSE 0))

\* _merge_splits(splits, separator)
merge_splits(splits, separator) == MergeFrom(splits, separator, <<>>, <<>>, 0)

\* The first separator of the list that is empty or occurs in the text (the
\* last one when there is none).
ChosenSeparator(text, seps) ==
    LET fits(i) == seps[i] = <<>> \/ Contains(text, seps[i])
    IN  IF \E i \in 1..Len(seps) : fits(i)
        THEN CHOOSE i \in 1..Len(seps) : fits(i) /\ \A j \in 1..(i - 1) : ~fits(j)
        ELSE Len(seps)

RECURSIVE split_text_rec(_, _)
RECURSIVE SplitLoop(_, _, _, _)

\* The for loop of _split_text: splits shorter than chunk_size are collected
\* and merged; a longer one is split again with the separators that remain,
\* or kept as it is when none remains.  keep_separator makes the merge
\* separator empty.
SplitLoop(splits, new_separators, good_splits, final_chunks) ==
    LET merged == IF good_splits # <<>> THEN merge_splits(good_splits, <<>>) ELSE <<>>
    IN  IF splits = <<>>
        THEN final_chunks \o merged
        ELSE LET piece == Head(splits)
             IN  IF Len(piece) < chunk_size
                 THEN SplitLoop(Tail(splits), new_separators,
                                Append(good_splits, piece), final_chunks)
                 ELSE SplitLoop(Tail(splits), new_separators, <<>>,
                                final_chunks \o merged \o
                                    (IF new_separators = <<>>
                                     THEN <<piece>>
                                     ELSE split_text_rec(piece, new_separators)))

\* _split_text(text, separators)
split_text_rec(text, seps) ==
    LET i == ChosenSeparator(text, seps)
        new_separators == IF seps[i] = <<>> \/ ~Contains(text, seps[i])
                          THEN <<>>
                          ELSE SubSeq(seps, i + 1, Len(seps))
    IN  SplitLoop(split_text_with_regex(text, seps[i]), new_separators, <<>>, <<>>)

\* text_splitter.split_text(text)
split_text(text) == split_text_rec(text, separators)

\* The chunker on its own: every text of up to MaxTextLen characters that
\* upload_document lets through (not blank), and split_text applied to it.
TextChars == {"a", " ", "\n"}

Texts == UNION {[1..n -> TextChars] : n \in 1..MaxTextLen}

InitChunk ==
    /\ StoresAtInit
    /\ rr = IdleRerank
    /\ pl = IdlePipeline
    /\ ev = IdleLoop
    /\ \E text \in Texts :
           /\ Strip(text) # <<>>
           /\ ck = [text |-> text, out |-> <<>>, done |-> FALSE]

ChunkStep ==
    /\ ~ck.done
    /\ ck' = [ck EXCEPT !.out = split_text(ck.text), !.done = TRUE]
    /\ UNCHANGED <<users, tokens, catalog, index, files, uploads, nextDoc, life, resp,
                   rr, pl, ev>>

NextChunk == ChunkStep

SpecChunk == InitChunk /\ [][NextChunk]_vars

\* ------------------------------------------------------------------------
\* The event loop on its own: one /chat and one /upload request of each
\* owner.  A request arrives, is dispatched when no handler holds the loop,
\* and then holds the loop from one position of its handler to the next;
\* only `await file.read()` gives the loop up before the handler ends.
\* ------------------------------------------------------------------------
Requests == {[tenant |-> t, op |-> o] : t \in UserIds, o \in {"chat", "upload"}}

\* The calls of each handler that take long, in the order of the code:
\* chat embeds the query and searches, scores the pairs, generates; upload
\* opens the file, awaits the content, extracts, adds the texts (embedding
\* them) and inserts the row.
Positions(op) ==
    IF op = "chat"
    THEN <<"embed", "rerank", "generate">>
    ELSE <<"open", "read", "extract", "index", "catalog">>

PositionAfter(op, pos) ==
    LET i == CHOOSE j \in 1..Len(Positions(op)) : Positions(op)[j] = pos
    IN  Positions(op)[i + 1]

InitLoop ==
    /\ StoresAtInit
    /\ rr = IdleRerank
    /\ pl = IdlePipeline
    /\ ck = IdleChunker
    /\ ev = [at |-> [r \in Requests |-> "new"], holder |-> {}]

LoopFrame ==
    UNCHANGED <<users, tokens, catalog, index, files, uploads, nextDoc, life, resp, rr, pl, ck>>

\* A client sends the request.
Arrive(r) ==
    /\ ev.at[r] = "new"
    /\ ev' = [ev EXCEPT !.at[r] = "queued"]
    /\ LoopFrame

\* The loop can start the handler of a request that waits.
CanDispatch(r) == ev.at[r] = "queued" /\ ev.holder = {}

Dispatch(r) ==
    /\ CanDispatch(r)
    /\ ev' = [ev EXCEPT !.at[r] = Positions(r.op)[1], !.holder = {r}]
    /\ LoopFrame

\* The handler goes from one call to the next without leaving the loop.
Advance(r) ==
    /\ ev.holder = {r}
    /\ ev.at[r] # Positions(r.op)[Len(Positions(r.op))]
    /\ PositionAfter(r.op, ev.at[r]) # "read"
    /\ ev' = [ev EXCEPT !.at[r] = PositionAfter(r.op, ev.at[r])]
    /\ LoopFrame

\* `await file.read()`: the handler is suspended and the loop is free.
Suspend(r) ==
    /\ ev.holder = {r}
    /\ ev.at[r] = "open"
    /\ ev' = [ev EXCEPT !.at[r] = "read", !.holder = {}]
    /\ LoopFrame

\* The content was read: the loop resumes the handler when it is free.
Resume(r) ==
    /\ ev.holder = {}
    /\ ev.at[r] = "read"
    /\ ev' = [ev EXCEPT !.at[r] = PositionAfter(r.op, "read"), !.holder = {r}]
    /\ LoopFrame

\* The handler returns or raises: the response is sent, the loop is free.
Return(r) ==
    /\ ev.holder = {r}
    /\ ev' = [ev EXCEPT !.at[r] = "done", !.holder = {}]
    /\ LoopFrame

NextLoop ==
    \/ \E r \in Requests : Arrive(r)
    \/ \E r \in Requests : Dispatch(r)
    \/ \E r \in Requests : Advance(r)
    \/ \E r \in Requests : Suspend(r)
    \/ \E r \in Requests : Resume(r)
    \/ \E r \in Requests : Return(r)

SpecLoop == InitLoop /\ [][NextLoop]_vars

\* ------------------------------------------------------------------------
\* Properties
\* ------------------------------------------------------------------------
IndexedFor(u) == {r \in index : r.user_id = u}
IndexedDoc(d) == {r \in index : r.doc_id = d}
Cataloged(d) == \E row \in catalog : row.id = d

\* C1 (tenant isolation): the candidates a chat of owner A retrieved, the
\* passages selected from them and the source filenames returned all come
\* from points whose payload user_id is A; when A has no indexed points the
\* candidate list is empty, whatever other owners hold.
C1_TenantIsolation ==
    resp.op = "chat" =>
        /\ \A c \in resp.retrieved : c.user_id = resp.user
        /\ \A c \in resp.passages : c.user_id = resp.user
        /\ \A i \in DOMAIN resp.sources :
               \E r \in IndexedFor(resp.user) : r.filename = resp.sources[i]
        /\ (IndexedFor(resp.user) = {} => resp.retrieved = {})

\* An owner is answered from their own points while another owner also
\* holds points in the index.
C1_Witness ==
    /\ resp.op = "chat"
    /\ resp.kind = "answer"
    /\ resp.retrieved # {}
    /\ \E r \in index : r.user_id # resp.user

\* C2 (deletion completeness): once DELETE /documents/{doc_id} reported
\* success, the catalog has no row for the document and no later chat
\* retrieves a candidate tagged with it.
C2_DeletionComplete ==
    \A d \in DocIds :
        life[d] = "deleted" =>
            /\ ~Cataloged(d)
            /\ resp.op = "chat" => \A c \in resp.retrieved : c.doc_id # d

\* C3 (cross-store invariant): every catalog row has exactly `chunks` points
\* in the index that carry its id and its owner.
C3_CrossStore ==
    \A row \in catalog :
        /\ Cardinality({r \in index : r.doc_id = row.id /\ r.user_id = row.user_id})
               = row.chunks
        /\ \A r \in IndexedDoc(row.id) : r.user_id = row.user_id

\* A cataloged document of several chunks, next to points of other documents.
C3_Witness ==
    \E row \in catalog :
        /\ row.chunks > 1
        /\ \E r \in index : r.doc_id # row.id

\* C4 (lifecycle atomicity): a document id whose upload failed has no catalog
\* row and no point in the index.
C4_LifecycleAtomicity ==
    \A d \in DocIds :
        life[d] = "failed" => (~Cataloged(d) /\ IndexedDoc(d) = {})

\* C5 (admin teardown): after a successful admin deletion, every document an
\* admin deletion removed has neither a catalog row nor points in the index.
C5_AdminTeardown ==
    (resp.op \in {"admin_delete_document", "admin_delete_user"} /\ resp.status = HTTP_OK) =>
        \A d \in DocIds :
            life[d] = "admin_deleted" => (~Cataloged(d) /\ IndexedDoc(d) = {})

\* C6 (empty query): a chat whose query is empty or blank is answered with
\* the validation status, and it calls no collaborator.
C6_EmptyQueryRejected ==
    (resp.op = "chat" /\ resp.fault = "validation") =>
        (resp.status = HTTP_BAD_REQUEST /\ resp.calls = <<>>)

\* C7 (no candidates): a chat whose retrieval ran and found no point of the
\* owner returns the "no documents" response with status 200 and no sources,
\* and calls neither the reranker nor the language model.
C7_NoDocsShortCircuit ==
    (/\ resp.op = "chat"
     /\ "retrieve" \in Range(resp.calls)
     /\ resp.fault # "retrieve"
     /\ IndexedFor(resp.user) = {}) =>
        /\ resp.status = HTTP_OK
        /\ resp.kind = "nodocs"
        /\ resp.sources = <<>>
        /\ resp.calls = <<"retrieve">>

\* The owner has nothing indexed while the index holds points of others.
C7_Witness ==
    /\ resp.op = "chat"
    /\ resp.kind = "nodocs"
    /\ index # {}

\* C8 (query-time failures): a chat in which retrieval, reranking or
\* generation raised ends in an error response, never in an answer or in the
\* "no documents" response.
C8_FailuresSurface ==
    (resp.op = "chat" /\ resp.fault \in {"retrieve", "rerank", "generate"}) =>
        /\ resp.status = HTTP_INTERNAL
        /\ resp.kind = "error"
        /\ resp.sources = <<>>

\* Generation raised after retrieval and reranking had run.
C8_Witness ==
    /\ resp.op = "chat"
    /\ resp.fault = "generate"
    /\ resp.calls = <<"retrieve", "rerank", "generate">>

\* The steps in which upload_document rejects a filename.
UploadRejected ==
    \E u \in UserIds, fn \in Filenames, openOk \in BOOLEAN :
        ~SupportedFile(fn) /\ UploadBegin(u, fn, openOk)

\* C9 (validation before side effects): an upload whose filename has an
\* unsupported extension is answered with the validation status and leaves
\* the stored files, the index and the catalog as they were.
C9_ValidationNoSideEffect ==
    [][UploadRejected =>
           (resp'.status = HTTP_BAD_REQUEST /\ UNCHANGED <<files, index, catalog>>)]_vars

\* Candidate a ranks before candidate b: a higher score, or the same score
\* and an earlier retrieval rank.
Before(scores, a, b) ==
    scores[a] > scores[b] \/ (scores[a] = scores[b] /\ a < b)

\* C10 (rerank): the output holds min(5, n) distinct candidates; they are in
\* descending score order with equal scores in retrieval order; and every
\* candidate left out ranks after every candidate kept.  The output is thus
\* determined by the candidates and scores alone.
C10_RerankOrder ==
    rr.done =>
        LET n == Len(rr.docs)
            out == rr.out
        IN  /\ Len(out) = Min(K2, n)
            /\ Range(out) \subseteq Range(rr.docs)
            /\ \A i, j \in 1..Len(out) : i < j => Before(rr.scores, out[i], out[j])
            /\ \A c \in Range(rr.docs) \ Range(out) :
                   \A i \in 1..Len(out) : Before(rr.scores, out[i], c)

\* More than five candidates, with a tie among the scores, reordered.
C10_Witness ==
    /\ rr.done
    /\ Len(rr.docs) > K2
    /\ \E i, j \in 1..Len(rr.docs) : i # j /\ rr.scores[i] = rr.scores[j]
    /\ rr.out # SubSeq(rr.docs, 1, K2)

\* The steps in which delete_document is called by an owner for a cataloged
\* document of somebody else.
NonOwnerDelete ==
    \E u \in UserIds, d \in DocIds, fault \in DeleteFaults :
        /\ \E row \in catalog : row.id = d /\ row.user_id # u
        /\ DeleteDocument(u, d, fault)

\* C12 (ownership on delete): DELETE /documents/{doc_id} by an owner who
\* does not own the cataloged document is answered 404 and leaves the stored
\* files, the catalog and the index as they were.
C12_OwnershipOnDelete ==
    [][NonOwnerDelete =>
           (resp'.status = HTTP_NOT_FOUND /\ UNCHANGED <<files, catalog, index>>)]_vars

\* A delete was refused for a document that another owner holds, with its
\* file stored and its points indexed.
C12_Witness ==
    /\ resp.op = "delete"
    /\ resp.status = HTTP_NOT_FOUND
    /\ \E row \in catalog :
           /\ row.id = resp.doc
           /\ row.user_id # resp.user
           /\ row.file_path \in files
           /\ IndexedDoc(row.id) # {}

\* C13 (listing): GET /documents of owner A returns, once each, exactly the
\* catalog rows whose owner is A; these are the documents A uploaded with
\* success that were not deleted since.
C13_ListingScoped ==
    resp.op = "list" =>
        LET listed == {resp.docs[i].id : i \in 1..Len(resp.docs)}
        IN  /\ Cardinality(listed) = Len(resp.docs)
            /\ listed = {row.id : row \in {r \in catalog : r.user_id = resp.user}}
            /\ listed = {d \in DocIds :
                             /\ life[d] = "active"
                             /\ \E r \in IndexedDoc(d) : r.user_id = resp.user}

\* An owner is listed a document while the catalog also holds a row of
\* another owner.
C13_Witness ==
    /\ resp.op = "list"
    /\ resp.docs # <<>>
    /\ \E row \in catalog : row.user_id # resp.user

\* C17 (per-document serialization): while the upload of a document id is
\* suspended the id has neither a catalog row nor points, so no teardown has
\* anything of it to act on; and a step that changes the row or the points
\* of an id is either the completion of its upload or, after that upload
\* succeeded, its teardown.
C17_PerDocumentSerialization ==
    [][\A d \in DocIds :
           /\ life'[d] = "uploading" =>
                  /\ \A row \in catalog' : row.id # d
                  /\ \A r \in index' : r.doc_id # d
           /\ ({row \in catalog : row.id = d} # {row \in catalog' : row.id = d}
               \/ IndexedDoc(d) # {r \in index' : r.doc_id = d}) =>
                  \/ life[d] = "uploading" /\ life'[d] \in {"active", "failed"}
                  \/ life[d] = "active" /\ life'[d] \in {"deleted", "admin_deleted"}]_vars

\* A delete of a document id arrived while the upload of that id was
\* suspended, and found nothing to tear down.
C17_Witness ==
    \E p \in uploads :
        /\ resp.op = "delete"
        /\ resp.doc = p.doc_id
        /\ resp.user = p.user_id
        /\ resp.status = HTTP_NOT_FOUND

\* C19 (cleanup on failed ingest): a document id whose upload failed has no
\* file left under uploads/.
C19_FailedIngestCleanup ==
    \A d \in DocIds :
        life[d] = "failed" => \A f \in files : f[2] # d

\* The position of a step in the order store, extract, (non-blank), chunk,
\* write vectors, write catalog row.
StepRank(step) ==
    CASE step = "store" -> 1
      [] step = "extract" -> 2
      [] step = "nonempty" -> 3
      [] step = "chunk" -> 4
      [] step = "index" -> 5
      [] step = "catalog" -> 6
      [] OTHER -> 0

\* C20 (ingest ordering): the steps an upload entered are an initial part
\* of the order store, extract, chunk, write vectors, write catalog row; a
\* catalog row exists only with all of its points written; and an upload
\* that answered success entered every step and left its row in the catalog.
C20_IngestOrdering ==
    /\ resp.op = "upload" =>
           /\ \A i \in 1..Len(resp.calls) : StepRank(resp.calls[i]) = i
           /\ resp.status = HTTP_OK =>
                  /\ Len(resp.calls) = StepRank("catalog")
                  /\ Cataloged(resp.doc)
    /\ \A row \in catalog : Cardinality(IndexedDoc(row.id)) = row.chunks
    /\ \A d \in DocIds : life[d] \in {"uploading", "failed"} => ~Cataloged(d)

\* An upload of several chunks succeeded after an earlier upload had failed
\* between the vector write and the catalog write.
C20_Witness ==
    /\ resp.op = "upload"
    /\ resp.status = HTTP_OK
    /\ resp.chunks > 1
    /\ \E d \in DocIds : life[d] = "failed" /\ IndexedDoc(d) # {}

\* The distinct elements of a list, each at the place of its first
\* occurrence.
RECURSIVE FirstSeen(_)
FirstSeen(names) ==
    IF names = <<>>
    THEN <<>>
    ELSE LET rest == FirstSeen(SubSeq(names, 1, Len(names) - 1))
             x == names[Len(names)]
         IN  IF x \in Range(rest) THEN rest ELSE Append(rest, x)

\* C11 (sources): the source list of an answer holds each distinct filename
\* of the selected passages once, in the order in which the filenames first
\* occur among the selected passages.
C11_SourcesFirstSeen ==
    (pl.done /\ pl.out.kind = "answer") =>
        pl.out.sources =
            FirstSeen([i \in 1..Len(pl.out.selected) |-> pl.out.selected[i].filename])

\* The candidates at the positions that rank first: position a is the i-th
\* when exactly i - 1 positions rank before it.
RankedSelection(docs, scores) ==
    [i \in 1..Min(K2, Len(docs)) |->
        docs[CHOOSE a \in 1..Len(docs) :
                 Cardinality({b \in 1..Len(docs) : Before(scores, b, a)}) = i - 1]]

\* C14 (rerank on every query): when the language model was called, the
\* reranker was called before it in the same request, and the context block
\* of the prompt renders exactly the candidates the scores rank first.
C14_RerankBeforeGenerate ==
    (pl.done /\ "generate" \in Range(pl.out.calls)) =>
        /\ \E i, j \in 1..Len(pl.out.calls) :
               i < j /\ pl.out.calls[i] = "rerank" /\ pl.out.calls[j] = "generate"
        /\ pl.out.context = Context(RankedSelection(pl.docs, pl.scores))

\* The language model answered from candidates that reranking put in
\* another order than the retrieval.
C14_Witness ==
    /\ pl.done
    /\ pl.out.kind = "answer"
    /\ Len(pl.docs) > 1
    /\ pl.out.selected # pl.docs

\* The length of the part of the context block for the i-th passage, and the
\* place where that part starts.
PartLen(sel, i) ==
    Len(IntStr(i)) + Len(sel[i].filename) + Len(PageContent(sel[i])) + 3

RECURSIVE PartStart(_, _)
PartStart(sel, i) ==
    IF i = 1 THEN 1 ELSE PartStart(sel, i - 1) + PartLen(sel, i - 1) + 1

\* C15 (context assembly): the context block consists of one part per
\* selected passage, in the order of the selection; the i-th part is the
\* source index i (from 1), the filename of the passage and its text; and
\* between two consecutive parts stands the delimiter, once.
C15_ContextAssembly ==
    (pl.done /\ pl.out.kind = "answer") =>
        LET sel == pl.out.selected
            ctx == pl.out.context
            n == Len(sel)
        IN  /\ Len(ctx) = PartStart(sel, n) + PartLen(sel, n) - 1
            /\ \A i \in 1..n :
                   LET start == PartStart(sel, i)
                   IN  /\ SubSeq(ctx, start, start + PartLen(sel, i) - 1) =
                              <<"[Source ">> \o IntStr(i) \o <<": ">>
                                  \o sel[i].filename \o <<"]\n">>
                                  \o PageContent(sel[i])
                       /\ i < n => ctx[start + PartLen(sel, i)] = "\n\n---\n\n"

\* A context block of several passages from two files.
C15_Witness ==
    /\ pl.done
    /\ pl.out.kind = "answer"
    /\ Len(pl.out.selected) > 2
    /\ \E i, j \in 1..Len(pl.out.selected) :
           pl.out.selected[i].filename # pl.out.selected[j].filename

\* The calls that embed, score or generate.
SlowPositions == {"embed", "rerank", "generate", "index"}

\* C16 (slow work off the dispatch path): a request that is in an
\* embedding, scoring or generation call does not hold the loop, so that a
\* waiting request of another owner can be dispatched.
C16_SlowWorkOffLoop ==
    \A r \in DOMAIN ev.at :
        ev.at[r] \in SlowPositions =>
            /\ ev.holder # {r}
            /\ \A o \in DOMAIN ev.at :
                   (o.tenant # r.tenant /\ ev.at[o] = "queued") => CanDispatch(o)

\* Position i of the text lies inside an occurrence of some chunk.
Covered(text, chunks, i) ==
    \E c \in 1..Len(chunks) :
        \E o \in 0..(Len(text) - Len(chunks[c])) :
            /\ SubSeq(text, o + 1, o + Len(chunks[c])) = chunks[c]
            /\ o < i
            /\ i <= o + Len(chunks[c])

\* C18 (chunker coverage): split_text returns no empty chunk, and every
\* character of the text lies in some chunk.
C18_ChunkerCoverage ==
    ck.done =>
        /\ \A c \in 1..Len(ck.out) : ck.out[c] # <<>>
        /\ \A i \in 1..Len(ck.text) : Covered(ck.text, ck.out, i)

\* C21 (tenant tag integrity): every point of the index carries a user_id
\* and a doc_id; the points of one doc_id all carry the same user_id; and
\* when the catalog has a row for the doc_id, that user_id is the row's
\* owner.  This holds as well for the points an interrupted add_texts left.
C21_TagIntegrity ==
    \A r \in index :
        /\ {"user_id", "doc_id"} \subseteq DOMAIN r
        /\ r.user_id \in UserIds
        /\ r.doc_id \in DocIds
        /\ \A o \in index : o.doc_id = r.doc_id => o.user_id = r.user_id
        /\ \A row \in catalog : row.id = r.doc_id => row.user_id = r.user_id

\* The index holds the points of a cataloged document of several chunks
\* and, from another owner, the first points of an upload whose add_texts
\* was interrupted.
C21_Witness ==
    \E row \in catalog :
        /\ row.chunks > 1
        /\ \E r \in index :
               /\ life[r.doc_id] = "failed"
               /\ r.user_id # row.user_id

\* The chunk_id values of the points of document d.
ChunkIds(d) == {r.chunk_id : r \in IndexedDoc(d)}

\* C22 (chunk ordinals): the points of a cataloged document carry the
\* chunk_id values 0 .. chunks - 1 of its row, each on one point; and for an
\* upload that answered success, the chunk count of the response is the
\* chunk count of the row and the number of the document's points.
C22_ChunkOrdinals ==
    /\ \A row \in catalog :
           /\ ChunkIds(row.id) = 0..(row.chunks - 1)
           /\ Cardinality(IndexedDoc(row.id)) = row.chunks
    /\ (resp.op = "upload" /\ resp.status = HTTP_OK) =>
           /\ resp.chunks > 0
           /\ ChunkIds(resp.doc) = 0..(resp.chunks - 1)
           /\ Cardinality(IndexedDoc(resp.doc)) = resp.chunks
           /\ \E row \in catalog : row.id = resp.doc /\ row.chunks = resp.chunks

\* An upload of the largest number of chunks succeeded while the index
\* already held the points of another document.
C22_Witness ==
    /\ resp.op = "upload"
    /\ resp.status = HTTP_OK
    /\ resp.chunks = MaxChunks
    /\ \E r \in index : r.doc_id # resp.doc

\* The owners whose uploads tagged points with document id d.
Uploaders(d) == {r.user_id : r \in IndexedDoc(d)}

\* C23 (repeated deletion of one document): delete_document requests of the
\* owner for one document run one after the other.  Each of them leaves the
\* catalog without a row for the document; the one that found the row
\* answers success and no other does; and a deleted document stays deleted,
\* so at most one request reports success.
C23_DeleteOnce ==
    [][\A d \in DocIds :
           /\ life[d] = "deleted" =>
                  /\ life'[d] = "deleted"
                  /\ \A row \in catalog' : row.id # d
           /\ \A u \in UserIds, fault \in DeleteFaults :
                  (/\ u \in Uploaders(d)
                   /\ resp'.op = "delete" /\ resp'.user = u /\ resp'.doc = d
                   /\ DeleteDocument(u, d, fault)) =>
                      /\ \A row \in catalog' : row.id # d
                      /\ resp'.status = HTTP_OK <=> Cataloged(d)
                      /\ resp'.status = HTTP_OK =>
                             (life[d] = "active" /\ life'[d] = "deleted")]_vars

\* C23, amended (repeated deletion of one document, with requests that
\* fail): of the owner's delete_document requests for one document at most
\* one reports success, since a success finds the row, removes it and the
\* document stays deleted ever after.  A request that does not report
\* success leaves the catalog as it was: with the row when exists, unlink
\* or the row's deletion raised, without it (404) when the row was gone
\* before.  A
\* request in which nothing raises removes the row it finds and reports
\* success.
C23_DeleteOnceOrFail ==
    [][\A d \in DocIds :
           /\ life[d] = "deleted" =>
                  /\ life'[d] = "deleted"
                  /\ \A row \in catalog' : row.id # d
           /\ \A u \in UserIds, fault \in DeleteFaults :
                  (/\ u \in Uploaders(d)
                   /\ resp'.op = "delete" /\ resp'.user = u /\ resp'.doc = d
                   /\ DeleteDocument(u, d, fault)) =>
                      /\ resp'.status = HTTP_OK =>
                             /\ Cataloged(d)
                             /\ life[d] = "active" /\ life'[d] = "deleted"
                             /\ \A row \in catalog' : row.id # d
                      /\ resp'.status # HTTP_OK => UNCHANGED <<catalog, life>>
                      /\ ~Cataloged(d) => resp'.status = HTTP_NOT_FOUND
                      /\ (Cataloged(d) /\ fault = "none") => resp'.status = HTTP_OK]_vars

\* The owner's delete reported success without calling unlink: the file
\* was gone because an earlier delete of the owner had removed it and then
\* failed, leaving the row that this request found.
C23_Witness ==
    /\ resp.op = "delete"
    /\ resp.status = HTTP_OK
    /\ resp.calls = <<"delete">>
    /\ life[resp.doc] = "deleted"
    /\ resp.user \in Uploaders(resp.doc)
    /\ \A row \in catalog : row.id # resp.doc

\* C24 (catalog referential integrity): the owner of every catalog row is a
\* row of table users.
C24_CatalogOwnersExist ==
    \A row \in catalog : get_user_by_id(users, row.user_id)

\* The steps in which an administrator asks for the deletion of their own
\* account.
SelfDelete == \E a \in Admins : AdminDeleteUser(a, a)

\* C25 (admin self-deletion guard): delete_user called by an administrator
\* for their own id is answered 400 and leaves the users, the catalog, the
\* stored files and the index as they were; and no delete_user removes the
\* account of the administrator who asked for it.
C25_SelfDeleteGuard ==
    [][/\ SelfDelete =>
              /\ resp'.status = HTTP_BAD_REQUEST
              /\ UNCHANGED <<users, tokens, catalog, files, index>>
       /\ \A a \in Admins, target \in UserIds :
              AdminDeleteUser(a, target) => a \in users']_vars

\* An administrator's request to delete their own account was refused
\* while owners held documents.
C25_Witness ==
    /\ resp.op = "admin_delete_user"
    /\ resp.status = HTTP_BAD_REQUEST
    /\ resp.user \in users
    /\ catalog # {}
    /\ files # {}
    /\ index # {}

====
